---- MODULE Spec2Model ----
(***************************************************************************)
(* A model of kubex: the retry engine (src/retry.rs, src/retry/api.rs),    *)
(* the discovery cache store and resolve_requested_resources               *)
(* (src/discover.rs, src/_discover.rs) and the resolution of targets       *)
(* (src/lib.rs).                                                           *)
(*                                                                         *)
(* Wall-clock times, cache ages and times-to-live are whole seconds.       *)
(* Durations of the retry engine are whole milliseconds.  A backoff        *)
(* multiplier (an f64 in the                                               *)
(* source) is a ratio num/den; the policies enumerated below use ratios    *)
(* whose clamped value is integral, so that every product computed by      *)
(* Duration::mul_f64 is exact and no rounding has to be modelled.          *)
(***************************************************************************)
EXTENDS Integers, Sequences, FiniteSets, TLC

\* ------------------------------------------------------------------------
\* Bounds
\* ------------------------------------------------------------------------
\* largest finite attempt limit enumerated besides the default policy's
MaxLimit == 3
\* invocations allowed to one retry_with_policy call (caps Unlimited)
MaxCalls == 8
\* the same cap when several calls run concurrently
ConcMaxCalls == 3
\* items the consumer takes from a returned watch stream
MaxItems == 3
\* bytes in one serialized snapshot
SnapLen == 2

Min(a, b) == IF a <= b THEN a ELSE b

\* ------------------------------------------------------------------------
\* State
\* ------------------------------------------------------------------------
\* retry_with_policy, one process per call
VARIABLES
    policy,       \* the RetryPolicy every call borrows (&RetryPolicy)
    pc,           \* per call: "idle", "loop", "awaiting", "sleeping", "done"
    attempts,     \* per call: the local counter `attempts`
    backoff,      \* per call: the local `backoff`
    invocations,  \* per call: how many times operation() has been called
    outcomes,     \* per call: what each finished invocation returned
    slept,        \* per call: the durations handed to sleep(), in order
    result,       \* per call: the value retry_with_policy returned
    items         \* per call: what the returned watch stream has yielded

retryVars == <<policy, pc, attempts, backoff, invocations, outcomes, slept, result, items>>

\* default_retryable_error as a function of its input
VARIABLES
    error_in,     \* the error handed to the classifier
    verdict       \* <<>> before the call, <<b>> once it returned b

classifyVars == <<error_in, verdict>>

\* the cache file and the saves and loads that touch it
VARIABLES
    dir,          \* path -> inode number, 0 when the path does not exist
    files,        \* inode number -> content, a sequence of bytes
    wpc,          \* per save: "idle", "create", "writing", "rename", "done", "failed"
    wfd,          \* per save: the inode its open file refers to
    woff,         \* per save: the position of its open file
    rpc,          \* per load: "idle", "reading", "done"
    rfd,          \* per load: the inode its open file refers to
    rbuf,         \* per load: the bytes read so far
    observed      \* per load: what fs::read returned

fsVars == <<dir, files, wpc, wfd, woff, rpc, rfd, rbuf, observed>>

\* the cache file as the sequential callers of the store see it, and the clock
VARIABLES
    now,          \* the wall clock, in whole seconds
    file,         \* the cache path: missing, unreadable, or a file and its content
    last_saved,   \* the snapshot the most recent successful save stored
    last_op       \* the most recent direct call on the store and what it returned

storeVars == <<now, file, last_saved, last_op>>

\* resolve_requested_resources, one call at a time
VARIABLES
    cluster,      \* what list_api_resources() answers, the same all along
    stage,        \* "idle", "discovering" (suspended in the await), "done"
    args,         \* the arguments of the call and the time it started
    loaded_cache, \* the local `loaded_cache`
    discovery,    \* what list_api_resources() returned to this call
    io,           \* the I/O the call has performed, in order
    returned      \* the value the call returned

resolveVars == <<cluster, stage, args, loaded_cache, discovery, io, returned>>

\* the functions on targets and on context names, applied to enumerated inputs
VARIABLES
    fn_call,      \* the function called and its arguments
    fn_result,    \* None before the call, Some(v) once it returned v
    config_dir,   \* what dirs::config_dir() answers
    cache_paths   \* the contexts whose cache path was computed, each with its path

funVars == <<fn_call, fn_result, config_dir, cache_paths>>

vars == <<retryVars, classifyVars, fsVars, storeVars, resolveVars, funVars>>

\* ------------------------------------------------------------------------
\* src/retry.rs : RetryLimit, RetryPolicy, classifier, next_backoff
\* ------------------------------------------------------------------------
Unlimited == [tag |-> "Unlimited", n |-> 0]

Finite(k) == [tag |-> "Finite", n |-> k]

\* kube::Error values an operation can fail with: Api carries a status
\* code, the other variants carry none.  seq is the index of the invocation
\* that produced the error (its identity).
ApiError(c, k) == [kind |-> "Api", code |-> c, seq |-> k]

StatuslessError(kd, k) == [kind |-> kd, code |-> 0, seq |-> k]

StatuslessKinds == {"Service", "SerdeError"}

default_retryable_error_off_by_one(error) ==
    IF error.kind = "Api"
    THEN error.code = 408 \/ error.code = 429
         \/ (error.code >= 500 /\ error.code < 599)
    ELSE TRUE

default_retryable_error(error) ==
    IF error.kind = "Api"
    THEN error.code \in ({408, 429} \cup (500..599))
    ELSE TRUE

\* a custom classifier installed with with_retryable: retries nothing
never_retryable(error) == FALSE

\* a custom classifier installed with with_retryable: retries only 404
not_found_retryable(error) == error.kind = "Api" /\ error.code = 404

Classifiers == {"default_retryable_error", "never_retryable", "not_found_retryable"}

\* (policy.is_retryable)(&error)
is_retryable(p, error) ==
    CASE p.is_retryable = "default_retryable_error" -> default_retryable_error(error)
      [] p.is_retryable = "never_retryable" -> never_retryable(error)
      [] OTHER -> not_found_retryable(error)

\* f64::max(m, 1.0) on a ratio
F64Max1(m) == IF m.num < m.den THEN [num |-> 1, den |-> 1] ELSE m

\* Duration::mul_f64
MulF64(d, m) == (d * m.num) \div m.den

next_backoff_unclamped(current, p) ==
    Min(MulF64(current, p.backoff_multiplier), p.max_backoff)

next_backoff_uncapped(current, p) ==
    MulF64(current, F64Max1(p.backoff_multiplier))

next_backoff(current, p) ==
    Min(MulF64(current, F64Max1(p.backoff_multiplier)), p.max_backoff)

RetryPolicyDefault ==
    [max_attempts |-> Finite(5),
     initial_backoff |-> 200,
     max_backoff |-> 5000,
     backoff_multiplier |-> [num |-> 2, den |-> 1],
     is_retryable |-> "default_retryable_error"]

RetryLimits == {Unlimited} \cup {Finite(k) : k \in 1..MaxLimit}

Multipliers == {[num |-> 1, den |-> 2], [num |-> 1, den |-> 1],
                [num |-> 2, den |-> 1], [num |-> 3, den |-> 1]}

\* every RetryPolicy value the builder methods or a struct literal can make,
\* over small sets of field values
Policies ==
    [max_attempts : RetryLimits,
     initial_backoff : {0, 200, 6000},
     max_backoff : {0, 5000},
     backoff_multiplier : Multipliers,
     is_retryable : Classifiers] \cup {RetryPolicyDefault}

\* ------------------------------------------------------------------------
\* src/retry.rs : retry_with_policy, one process per call
\* ------------------------------------------------------------------------
NoResult == [tag |-> "None"]

Ok(v) == [tag |-> "Ok", value |-> v]

Err(e) == [tag |-> "Err", error |-> e]

\* what the k-th invocation of the operation can return: a value (tagged
\* with k, as the tests' Ok(current)) or an error
OutcomesAt(k) ==
    {Ok(k)} \cup {Err(ApiError(c, k)) : c \in {404, 503}}
            \cup {Err(StatuslessError("Service", k))}

exhausted_early(max_attempts, n_attempts) ==
    IF max_attempts.tag = "Unlimited" THEN FALSE
    ELSE n_attempts + 1 >= max_attempts.n

exhausted_late(max_attempts, n_attempts) ==
    IF max_attempts.tag = "Unlimited" THEN FALSE
    ELSE n_attempts > max_attempts.n

exhausted(max_attempts, n_attempts) ==
    IF max_attempts.tag = "Unlimited" THEN FALSE
    ELSE n_attempts >= max_attempts.n

gives_up_only_when_exhausted(p, n_attempts, error) ==
    exhausted(p.max_attempts, n_attempts)

gives_up_on_fatal_only(p, n_attempts, error) == ~is_retryable(p, error)

\* the condition of `return Err(error)`
gives_up(p, n_attempts, error) ==
    exhausted(p.max_attempts, n_attempts) \/ ~is_retryable(p, error)

store_backoff_shared(b, t, v) == [u \in DOMAIN b |-> v]

\* the assignment to the call's own local `backoff`
store_backoff(b, t, v) == [b EXCEPT ![t] = v]

\* a sleep taken twice
sleep_twice(history, duration) == Append(Append(history, duration), duration)

\* sleep(backoff).await, recorded in the call's history of sleeps
sleep(history, duration) == Append(history, duration)

RetryInit(T, policies) ==
    /\ policy \in policies
    /\ pc = [t \in T |-> "idle"]
    /\ attempts = [t \in T |-> 0]
    /\ backoff = [t \in T |-> 0]
    /\ invocations = [t \in T |-> 0]
    /\ outcomes = [t \in T |-> <<>>]
    /\ slept = [t \in T |-> <<>>]
    /\ result = [t \in T |-> NoResult]
    /\ items = [t \in T |-> <<>>]

\* entry of retry_with_policy: the locals are initialised
Begin(t) ==
    /\ pc[t] = "idle"
    /\ backoff' = store_backoff(backoff, t, Min(policy.initial_backoff, policy.max_backoff))
    /\ attempts' = [attempts EXCEPT ![t] = 0]
    /\ pc' = [pc EXCEPT ![t] = "loop"]
    /\ UNCHANGED <<policy, invocations, outcomes, slept, result, items>>
    /\ UNCHANGED <<classifyVars, fsVars, storeVars, resolveVars, funVars>>

\* top of the loop: count the attempt and call operation()
Invoke(t, cap) ==
    /\ pc[t] = "loop"
    /\ invocations[t] < cap
    /\ attempts' = [attempts EXCEPT ![t] = @ + 1]
    /\ invocations' = [invocations EXCEPT ![t] = @ + 1]
    /\ pc' = [pc EXCEPT ![t] = "awaiting"]
    /\ UNCHANGED <<policy, backoff, outcomes, slept, result, items>>
    /\ UNCHANGED <<classifyVars, fsVars, storeVars, resolveVars, funVars>>

\* operation().await resolves and the match arm runs, up to the return or
\* the start of sleep(backoff)
Complete(t) ==
    /\ pc[t] = "awaiting"
    /\ \E o \in OutcomesAt(invocations[t]) :
        /\ outcomes' = [outcomes EXCEPT ![t] = Append(@, o)]
        /\ IF o.tag = "Ok"
           THEN /\ result' = [result EXCEPT ![t] = o]
                /\ pc' = [pc EXCEPT ![t] = "done"]
                /\ UNCHANGED slept
           ELSE IF gives_up(policy, attempts[t], o.error)
           THEN /\ result' = [result EXCEPT ![t] = o]
                /\ pc' = [pc EXCEPT ![t] = "done"]
                /\ UNCHANGED slept
           ELSE /\ slept' = [slept EXCEPT ![t] = sleep(@, backoff[t])]
                /\ pc' = [pc EXCEPT ![t] = "sleeping"]
                /\ UNCHANGED result
    /\ UNCHANGED <<policy, attempts, backoff, invocations, items>>
    /\ UNCHANGED <<classifyVars, fsVars, storeVars, resolveVars, funVars>>

\* sleep(backoff).await resolves; the backoff is advanced and the loop repeats
Wake(t) ==
    /\ pc[t] = "sleeping"
    /\ backoff' = store_backoff(backoff, t, next_backoff(backoff[t], policy))
    /\ pc' = [pc EXCEPT ![t] = "loop"]
    /\ UNCHANGED <<policy, attempts, invocations, outcomes, slept, result, items>>
    /\ UNCHANGED <<classifyVars, fsVars, storeVars, resolveVars, funVars>>

\* the caller polls the stream that watch_with_retry returned as its Ok
\* value: the stream yields an event or an error, or ends.  The retry loop
\* has returned; nothing here reaches it.
after_stream_item_resubscribing(p, t, item) ==
    IF item = "error" THEN [p EXCEPT ![t] = "loop"] ELSE p

after_stream_item(p, t, item) == p

PollStream(t, max_items) ==
    /\ pc[t] = "done"
    /\ result[t].tag = "Ok"
    /\ Len(items[t]) < max_items
    /\ IF items[t] = <<>> THEN TRUE ELSE items[t][Len(items[t])] # "end"
    /\ \E item \in {"event", "error", "end"} :
        /\ items' = [items EXCEPT ![t] = Append(@, item)]
        /\ pc' = after_stream_item(pc, t, item)
    /\ UNCHANGED <<policy, attempts, backoff, invocations, outcomes, slept, result>>
    /\ UNCHANGED <<classifyVars, fsVars, storeVars, resolveVars, funVars>>

\* ------------------------------------------------------------------------
\* src/retry.rs : default_retryable_error as a function of its input
\* ------------------------------------------------------------------------
\* every Api status code (u16) and the status-less variants
ClassifierInputs ==
    {ApiError(c, 0) : c \in 0..65535} \cup {StatuslessError(kd, 0) : kd \in StatuslessKinds}

ClassifyInit ==
    /\ error_in \in ClassifierInputs
    /\ verdict = <<>>

ClassifyIdle ==
    /\ error_in = StatuslessError("Service", 0)
    /\ verdict = <<>>

Classify ==
    /\ verdict = <<>>
    /\ verdict' = <<default_retryable_error(error_in)>>
    /\ UNCHANGED error_in
    /\ UNCHANGED <<retryVars, fsVars, storeVars, resolveVars, funVars>>

\* ------------------------------------------------------------------------
\* The cache file: save_discovery_cache and load_discovery_cache over a
\* file system of directory entries and inodes
\* ------------------------------------------------------------------------
Writers == {"w1", "w2"}

Readers == {"r1"}

\* serde_json::to_string(&cache_file) of the snapshot x: SnapLen bytes, each
\* marked with the snapshot it belongs to ("w0" is the content of an earlier,
\* finished save)
cache_data(x) == [i \in 1..SnapLen |-> x]

NotRead == [tag |-> "None"]

NotFound == [tag |-> "NotFound"]

Content(bytes) == [tag |-> "Content", data |-> bytes]

\* pwrite of `bytes` at position off of a file holding c; a gap is a hole
WriteAt(c, off, bytes) ==
    LET n == Len(bytes)
        newlen == IF Len(c) >= off + n THEN Len(c) ELSE off + n
    IN [i \in 1..newlen |->
           IF i > off /\ i <= off + n THEN bytes[i - off]
           ELSE IF i <= Len(c) THEN c[i]
           ELSE "hole"]

FsInit ==
    /\ \E old \in BOOLEAN :
        IF old
        THEN dir = [target |-> 1, tmp |-> 0] /\ files = <<cache_data("w0")>>
        ELSE dir = [target |-> 0, tmp |-> 0] /\ files = <<>>
    /\ wpc = [w \in Writers |-> "idle"]
    /\ wfd = [w \in Writers |-> 0]
    /\ woff = [w \in Writers |-> 0]
    /\ rpc = [r \in Readers |-> "idle"]
    /\ rfd = [r \in Readers |-> 0]
    /\ rbuf = [r \in Readers |-> <<>>]
    /\ observed = [r \in Readers |-> NotRead]

FsIdle ==
    /\ dir = [target |-> 0, tmp |-> 0]
    /\ files = <<>>
    /\ wpc = <<>>
    /\ wfd = <<>>
    /\ woff = <<>>
    /\ rpc = <<>>
    /\ rfd = <<>>
    /\ rbuf = <<>>
    /\ observed = <<>>

\* save_discovery_cache up to the write: create_dir_all(parent), which can
\* fail, then the snapshot is stamped and serialized
SaveStart(w) ==
    /\ wpc[w] = "idle"
    /\ \E created \in BOOLEAN :
        wpc' = [wpc EXCEPT ![w] = IF created THEN "create" ELSE "failed"]
    /\ UNCHANGED <<dir, files, wfd, woff, rpc, rfd, rbuf, observed>>
    /\ UNCHANGED <<retryVars, classifyVars, storeVars, resolveVars, funVars>>

\* fs::write, first half: File::create(path) opens with O_CREAT | O_TRUNC
WriteOpen(w, path) ==
    /\ wpc[w] = "create"
    /\ IF dir[path] = 0
       THEN /\ files' = Append(files, <<>>)
            /\ dir' = [dir EXCEPT ![path] = Len(files) + 1]
            /\ wfd' = [wfd EXCEPT ![w] = Len(files) + 1]
       ELSE /\ files' = [files EXCEPT ![dir[path]] = <<>>]
            /\ wfd' = [wfd EXCEPT ![w] = dir[path]]
            /\ UNCHANGED dir
    /\ woff' = [woff EXCEPT ![w] = 0]
    /\ wpc' = [wpc EXCEPT ![w] = "writing"]
    /\ UNCHANGED <<rpc, rfd, rbuf, observed>>
    /\ UNCHANGED <<retryVars, classifyVars, storeVars, resolveVars, funVars>>

\* fs::write, second half: write_all loops over write(); one call takes
\* k >= 1 of the remaining bytes.  After the last byte the file is closed
\* and save_discovery_cache goes on to `after`.
WriteChunk(w, after) ==
    /\ wpc[w] = "writing"
    /\ \E k \in 1..(SnapLen - woff[w]) :
        /\ files' = [files EXCEPT ![wfd[w]] =
                        WriteAt(@, woff[w], SubSeq(cache_data(w), woff[w] + 1, woff[w] + k))]
        /\ woff' = [woff EXCEPT ![w] = @ + k]
        /\ wpc' = [wpc EXCEPT ![w] = IF woff[w] + k = SnapLen THEN after ELSE "writing"]
    /\ UNCHANGED <<dir, wfd, rpc, rfd, rbuf, observed>>
    /\ UNCHANGED <<retryVars, classifyVars, storeVars, resolveVars, funVars>>

\* fs::rename(tmp_path, path): fails when tmp_path is gone, else replaces
\* the target's directory entry in one step
Rename(w) ==
    /\ wpc[w] = "rename"
    /\ IF dir.tmp = 0
       THEN /\ wpc' = [wpc EXCEPT ![w] = "failed"]
            /\ UNCHANGED dir
       ELSE /\ dir' = [target |-> dir.tmp, tmp |-> 0]
            /\ wpc' = [wpc EXCEPT ![w] = "done"]
    /\ UNCHANGED <<files, wfd, woff, rpc, rfd, rbuf, observed>>
    /\ UNCHANGED <<retryVars, classifyVars, storeVars, resolveVars, funVars>>

\* load_discovery_cache, first half: fs::read opens the target
ReadOpen(r) ==
    /\ rpc[r] = "idle"
    /\ IF dir.target = 0
       THEN /\ observed' = [observed EXCEPT ![r] = NotFound]
            /\ rpc' = [rpc EXCEPT ![r] = "done"]
            /\ UNCHANGED rfd
       ELSE /\ rfd' = [rfd EXCEPT ![r] = dir.target]
            /\ rpc' = [rpc EXCEPT ![r] = "reading"]
            /\ UNCHANGED observed
    /\ UNCHANGED <<dir, files, wpc, wfd, woff, rbuf>>
    /\ UNCHANGED <<retryVars, classifyVars, storeVars, resolveVars, funVars>>

\* load_discovery_cache, second half: read() until it returns 0 bytes
ReadChunk(r) ==
    /\ rpc[r] = "reading"
    /\ LET c == files[rfd[r]]
           pos == Len(rbuf[r])
       IN IF pos >= Len(c)
          THEN /\ observed' = [observed EXCEPT ![r] = Content(rbuf[r])]
               /\ rpc' = [rpc EXCEPT ![r] = "done"]
               /\ UNCHANGED rbuf
          ELSE /\ \E k \in 1..(Len(c) - pos) :
                    rbuf' = [rbuf EXCEPT ![r] = @ \o SubSeq(c, pos + 1, pos + k)]
               /\ UNCHANGED <<observed, rpc>>
    /\ UNCHANGED <<dir, files, wpc, wfd, woff, rfd>>
    /\ UNCHANGED <<retryVars, classifyVars, storeVars, resolveVars, funVars>>

\* ------------------------------------------------------------------------
\* src/lib.rs : resolution of targets against a list of APIResource
\* ------------------------------------------------------------------------
\* Option<T>
None == <<>>

Some(v) == <<v>>

unwrap_or_default(opt) == IF opt = None THEN "" ELSE opt[1]

\* APIResource, the fields the program reads
APIResource(name, singular_name, short_names, group, version, kind) ==
    [name |-> name, singular_name |-> singular_name, short_names |-> short_names,
     group |-> group, version |-> version, kind |-> kind]

Pods == APIResource("pods", "pod", Some(<<"po">>), None, Some("v1"), "Pod")

Services == APIResource("services", "service", Some(<<"svc">>), None, Some("v1"), "Service")

Deployments ==
    APIResource("deployments", "deployment", Some(<<"deploy">>), Some("apps"), Some("v1"), "Deployment")

\* the lists a discovery or a cache file can hold
ResourceLists == {<<>>, <<Pods>>, <<Services, Pods>>, <<Deployments, Pods>>}

\* the `targets` a caller can ask for
TargetLists == {<<>>, <<"pods">>, <<"svc", "po">>, <<"pod", "pods">>, <<"svc", "nodes">>}

\* format!("{}.{}", api_resource.name, group), for the names and groups of
\* the resources above
qualified_name(name, group) ==
    CASE name = "deployments" /\ group = "apps" -> "deployments.apps"
      [] name = "pods" /\ group = "apps" -> "pods.apps"
      [] name = "services" /\ group = "apps" -> "services.apps"
      [] name = "pods" /\ group = "metrics.k8s.io" -> "pods.metrics.k8s.io"

\* a match on the name and the singular name alone
resource_matches_target_by_name(target, api_resource) ==
    \/ api_resource.name = target
    \/ api_resource.singular_name = target

resource_matches_target(target, api_resource) ==
    \/ api_resource.name = target
    \/ api_resource.singular_name = target
    \/ /\ api_resource.short_names # None
       /\ \E i \in 1..Len(api_resource.short_names[1]) :
              api_resource.short_names[1][i] = target
    \/ /\ api_resource.group # None
       /\ qualified_name(api_resource.name, api_resource.group[1]) = target

\* the last resource of the list that matches
resolve_target_last(target, api_resources) ==
    LET hits == {i \in 1..Len(api_resources) :
                    resource_matches_target(target, api_resources[i])}
    IN IF hits = {} THEN None
       ELSE Some(api_resources[CHOOSE i \in hits : \A j \in hits : i >= j])

\* iter().find(..).cloned(): the first resource of the list that matches
resolve_target(target, api_resources) ==
    LET hits == {i \in 1..Len(api_resources) :
                    resource_matches_target(target, api_resources[i])}
    IN IF hits = {} THEN None
       ELSE Some(api_resources[CHOOSE i \in hits : \A j \in hits : i <= j])

AllResources == [tag |-> "AllResources"]

AllOf(targets) == [tag |-> "AllOf", targets |-> targets]

AnyOf(targets) == [tag |-> "AnyOf", targets |-> targets]

TargetSpecs ==
    {AllResources} \cup {AllOf(t) : t \in TargetLists} \cup {AnyOf(t) : t \in TargetLists}

\* resolve_target of every target, in the order of the targets
resolve_each(targets, resources) ==
    [i \in 1..Len(targets) |-> resolve_target(targets[i], resources)]

\* the first target whose resolve_target is None, alone
unresolved_of_first(targets, found) ==
    LET indices == SelectSeq([i \in 1..Len(targets) |-> i], LAMBDA i : found[i] = None)
    IN IF indices = <<>> THEN <<>> ELSE <<targets[indices[1]]>>

\* the targets whose resolve_target is None, in the order of the targets
unresolved_of(targets, found) ==
    LET indices == SelectSeq([i \in 1..Len(targets) |-> i], LAMBDA i : found[i] = None)
    IN [k \in 1..Len(indices) |-> targets[indices[k]]]

\* the AllOf arm from the outcome of each resolve_target: every resolved
\* target is pushed, every other one is reported, both in the order of the
\* targets
all_of_collect(found, unmatched) ==
    IF unmatched = <<>>
    THEN Ok([i \in 1..Len(found) |-> found[i][1]])
    ELSE Err([kind |-> "CouldNotBeResolved", targets |-> unmatched])

all_of_found(targets, found) == all_of_collect(found, unresolved_of(targets, found))

all_of(targets, resources) == all_of_found(targets, resolve_each(targets, resources))

\* a key of the name alone
seen_key_by_name(api_resource) == <<api_resource.name>>

\* the key of the `seen` set of the AnyOf arm
seen_key(api_resource) ==
    <<api_resource.name, unwrap_or_default(api_resource.group),
      unwrap_or_default(api_resource.version)>>

\* the loop of the AnyOf arm over the outcomes of resolve_target not
\* visited yet
RECURSIVE any_of_loop(_, _, _)
any_of_loop(found, seen, matched) ==
    IF found = <<>> THEN matched
    ELSE IF Head(found) # None /\ seen_key(Head(found)[1]) \notin seen
    THEN any_of_loop(Tail(found), seen \cup {seen_key(Head(found)[1])},
                     Append(matched, Head(found)[1]))
    ELSE any_of_loop(Tail(found), seen, matched)

\* the AnyOf arm without its error
any_of_collect_always_ok(targets, matched) == Ok(matched)

any_of_collect(targets, matched) ==
    IF matched = <<>>
    THEN Err([kind |-> "NoneCouldBeResolved", targets |-> targets])
    ELSE Ok(matched)

any_of(targets, resources) ==
    any_of_collect(targets, any_of_loop(resolve_each(targets, resources), {}, <<>>))

resolve_all_targets(spec, resources) ==
    IF spec.tag = "AllResources" THEN Ok(resources)
    ELSE IF spec.tag = "AllOf" THEN all_of(spec.targets, resources)
    ELSE any_of(spec.targets, resources)

\* ------------------------------------------------------------------------
\* src/_discover.rs : match_all_targets
\* ------------------------------------------------------------------------
\* the orders in which a HashMap can yield the values S
Orderings(S) ==
    {s \in [1..Cardinality(S) -> S] : \A i, j \in DOMAIN s : i # j => s[i] # s[j]}

\* every result match_all_targets can return: the matches are collected in a
\* HashMap keyed by name (the first one inserted under a name stays) and come
\* out of into_values() in an unspecified order
match_all_collect(found, unresolved) ==
    IF unresolved = <<>>
    THEN {Ok(s) : s \in Orderings(
             {found[i][1] : i \in {i \in 1..Len(found) :
                 \A j \in 1..(i - 1) : found[j][1].name # found[i][1].name}})}
    ELSE {Err([kind |-> "ResourceNotFound", targets |-> unresolved])}

match_all_found(targets, found) == match_all_collect(found, unresolved_of(targets, found))

match_all_targets(targets, resources) ==
    match_all_found(targets, resolve_each(targets, resources))

\* ------------------------------------------------------------------------
\* src/discover.rs : DiscoveryCacheFile, its JSON form, and the cache file
\* ------------------------------------------------------------------------
\* the fixed time-to-live of the older store, ten minutes
DISCOVERY_CACHE_TTL_SECS == 600

\* the instants at which the program is observed: the start, one second
\* later, and a time-to-live and one second more after the start
ClockValues == {0, 1, DISCOVERY_CACHE_TTL_SECS, DISCOVERY_CACHE_TTL_SECS + 1}

DiscoveryCacheFile(updated_at, resources) ==
    [updated_at |-> updated_at, resources |-> resources]

\* a JSON object is a sequence of <<key, value>> members; the value of a key
\* is that of its first member
member(object, key) ==
    LET at == {i \in 1..Len(object) : object[i][1] = key}
    IN IF at = {} THEN None
       ELSE Some(object[CHOOSE i \in at : \A j \in at : i <= j][2])

optional_member(key, opt) == IF opt = None THEN <<>> ELSE << <<key, opt[1]>> >>

\* Serialize for APIResource: an Option that is None is left out
resource_to_json(r) ==
    optional_member("group", r.group)
    \o << <<"kind", r.kind>>, <<"name", r.name>> >>
    \o optional_member("shortNames", r.short_names)
    \o << <<"singularName", r.singular_name>> >>
    \o optional_member("version", r.version)

\* Deserialize for APIResource: kind, name and singularName are required
resource_from_json(object) ==
    IF \E key \in {"kind", "name", "singularName"} : member(object, key) = None
    THEN None
    ELSE Some(APIResource(member(object, "name")[1], member(object, "singularName")[1],
                          member(object, "shortNames"), member(object, "group"),
                          member(object, "version"), member(object, "kind")[1]))

\* serde_json::to_string(&cache_file)
to_string(cache_file) ==
    << <<"updated_at", cache_file.updated_at>>,
       <<"resources", [i \in 1..Len(cache_file.resources) |->
                          resource_to_json(cache_file.resources[i])]>> >>

\* serde_json::from_str(&cache_data)
cache_file_from_members(updated_at, resources) ==
    IF \E i \in 1..Len(resources) : resources[i] = None THEN None
    ELSE Some(DiscoveryCacheFile(updated_at, [i \in 1..Len(resources) |-> resources[i][1]]))

cache_file_from_json(updated_at, resources) ==
    IF updated_at = None \/ resources = None THEN None
    ELSE cache_file_from_members(updated_at[1],
             [i \in 1..Len(resources[1]) |-> resource_from_json(resources[1][i])])

from_str(json) == cache_file_from_json(member(json, "updated_at"), member(json, "resources"))

\* the cache path on disk
Missing == [tag |-> "Missing"]

Unreadable == [tag |-> "Unreadable"]

File(data) == [tag |-> "File", data |-> data]

\* a file that does not parse read as a cache of nothing
parsed_or_empty(parsed) ==
    IF parsed = None THEN Ok(DiscoveryCacheFile(0, <<>>)) ELSE Ok(parsed[1])

\* .context("Failed to parse discovery cache file")
parsed_or_error(parsed) ==
    IF parsed = None THEN Err([kind |-> "FailedToParse"]) ELSE Ok(parsed[1])

load_discovery_cache(f) ==
    IF f.tag # "File" THEN Err([kind |-> "FailedToRead"])
    ELSE parsed_or_error(from_str(f.data))

\* fs::write(path, cache_data) that appended to the file
fs_write_appending(f, json, created, written) ==
    IF ~created \/ f.tag = "Unreadable" THEN f
    ELSE File((IF f.tag = "File" THEN f.data ELSE <<>>) \o SubSeq(json, 1, written))

\* fs::write(path, cache_data): File::create truncates the file, write_all
\* stores the data; `created` tells whether the file could be opened (a file
\* that cannot be read cannot be opened for writing either), `written` how
\* much of the data was stored before write_all returned
fs_write(f, json, created, written) ==
    IF ~created \/ f.tag = "Unreadable" THEN f
    ELSE File(SubSeq(json, 1, written))

\* a save that reports success and stores nothing
save_discovery_cache_unwritten(f, at, resources, created, written) ==
    [file |-> f, result |-> Ok(<<>>)]

\* save_discovery_cache of src/discover.rs: the file it leaves and what it
\* returns (create_dir_all failing is `created` being false)
save_discovery_cache(f, at, resources, created, written) ==
    LET json == to_string(DiscoveryCacheFile(at, resources))
        ok == created /\ f.tag # "Unreadable" /\ written = Len(json)
    IN [file |-> fs_write(f, json, created, written),
        result |-> IF ok THEN Ok(<<>>) ELSE Err([kind |-> "FailedToWrite"])]

\* save_discovery_cache of src/_discover.rs: the data goes to a temporary
\* file that is renamed over the path once it is whole
save_discovery_cache_renaming(f, at, resources, created, written) ==
    LET json == to_string(DiscoveryCacheFile(at, resources))
        ok == created /\ f.tag # "Unreadable" /\ written = Len(json)
    IN [file |-> IF ok THEN File(json) ELSE f,
        result |-> IF ok THEN Ok(<<>>) ELSE Err([kind |-> "FailedToWrite"])]

\* how a save can go: the file could not be opened, or it was opened and
\* this much of the serialized snapshot was stored
SaveOutcomes ==
    {[created |-> FALSE, written |-> 0]} \cup {[created |-> TRUE, written |-> n] : n \in 0..2}

NoSave == [tag |-> "NoSave"]

Saved(cache_file) == [tag |-> "Saved", cache_file |-> cache_file]

\* what a save leaves as the snapshot of the most recent successful save:
\* a failed save that touched the file ends the sequence of successful saves
after_save(previous, f, saved, at, resources) ==
    IF saved.result.tag = "Ok" THEN Saved(DiscoveryCacheFile(at, resources))
    ELSE IF saved.file = f THEN previous
    ELSE NoSave

NoOp == [op |-> "none"]

\* the files found at the cache path when the program starts
InitFiles ==
    {Missing, Unreadable, File(<<>>)}
        \cup {File(to_string(DiscoveryCacheFile(0, r))) : r \in {<<Pods>>, <<Pods, Services>>}}

StoreInit ==
    /\ now = 0
    /\ file \in InitFiles
    /\ last_saved = NoSave
    /\ last_op = NoOp

StoreIdle ==
    /\ now = 0
    /\ file = Missing
    /\ last_saved = NoSave
    /\ last_op = NoOp

\* the clock advances to a later instant
Tick ==
    /\ \E t \in ClockValues : t > now /\ now' = t
    /\ UNCHANGED <<file, last_saved, last_op>>
    /\ UNCHANGED <<retryVars, classifyVars, fsVars, resolveVars, funVars>>

\* a call of save_discovery_cache(path, resources)
SaveCache(resources, created, written) ==
    /\ \E saved \in {save_discovery_cache(file, now, resources, created, written)} :
          /\ file' = saved.file
          /\ last_saved' = after_save(last_saved, file, saved, now, resources)
          /\ last_op' = [op |-> "save", resources |-> resources, returned |-> saved.result]
    /\ UNCHANGED <<now>>
    /\ UNCHANGED <<retryVars, classifyVars, fsVars, resolveVars, funVars>>

\* a call of load_discovery_cache(path)
LoadCache ==
    /\ last_op' = [op |-> "load", returned |-> load_discovery_cache(file)]
    /\ UNCHANGED <<now, file, last_saved>>
    /\ UNCHANGED <<retryVars, classifyVars, fsVars, resolveVars, funVars>>

\* ------------------------------------------------------------------------
\* src/lib.rs : resolve_requested_resources_with_cache
\* ------------------------------------------------------------------------
CachePath == "ctx.json"

\* the time-to-live a caller can pass
CacheTtls == {None, Some(DISCOVERY_CACHE_TTL_SECS)}

\* cache_age > ttl with the bound included
expired_at_ttl(cache_ttl, cache_age) ==
    cache_ttl # None /\ cache_age >= cache_ttl[1]

\* if let Some(ttl) = cache_ttl { .. if cache_age > ttl .. }
expired(cache_ttl, cache_age) ==
    cache_ttl # None /\ cache_age > cache_ttl[1]

\* a call of resolve_requested_resources_with_cache(spec, cache_path, cache_ttl)
ResolveWithCache(spec, cache_ttl) ==
    /\ \E loaded \in {load_discovery_cache(file)} :
       LET cache == loaded.value
           cache_age == now - cache.updated_at
       IN last_op' =
              [op |-> "resolve_with_cache", spec |-> spec, cache_path |-> CachePath,
               cache_ttl |-> cache_ttl, at |-> now,
               cache |-> IF loaded.tag = "Ok" THEN Some(cache) ELSE None,
               resolved |-> loaded.tag = "Ok" /\ ~expired(cache_ttl, cache_age),
               returned |->
                   IF loaded.tag = "Err" THEN loaded
                   ELSE IF expired(cache_ttl, cache_age)
                   THEN Err([kind |-> "CacheExpired", cache_path |-> CachePath,
                             cache_age |-> cache_age, ttl |-> cache_ttl[1]])
                   ELSE resolve_all_targets(spec, cache.resources)]
    /\ UNCHANGED <<now, file, last_saved>>
    /\ UNCHANGED <<retryVars, classifyVars, fsVars, resolveVars, funVars>>

\* ------------------------------------------------------------------------
\* src/discover.rs : resolve_requested_resources
\* ------------------------------------------------------------------------
\* what list_api_resources() can answer
ClusterAnswers == {Ok(r) : r \in ResourceLists} \cup {Err("Unreachable")}

\* if targets.is_empty() { return Ok(Vec::new()); }, taken never
returns_at_once_never(targets) == FALSE

\* if targets.is_empty() { return Ok(Vec::new()); }
returns_at_once(targets) == targets = <<>>

\* cache_path.map(|path| load_discovery_cache(path)).transpose() of
\* src/discover.rs: an error of the load is the error of the whole
load_strict(cache_path, f) ==
    IF cache_path = None THEN Ok(None)
    ELSE LET loaded == load_discovery_cache(f)
         IN IF loaded.tag = "Ok" THEN Ok(Some(loaded.value)) ELSE loaded

\* path.and_then(load_discovery_cache) of src/_discover.rs: a file that
\* cannot be read or parsed is no cache
load_tolerant(cache_path, f) ==
    IF cache_path = None THEN Ok(None)
    ELSE LET loaded == load_discovery_cache(f)
         IN IF loaded.tag = "Ok" THEN Ok(Some(loaded.value)) ELSE Ok(None)

\* cache_age <= ttl with the bound left out
is_fresh_below_ttl(cache_ttl, at, updated_at) ==
    cache_ttl = None \/ at - updated_at < cache_ttl[1]

\* the cache is never used before discovery
is_fresh_never(cache_ttl, at, updated_at) == FALSE

\* match cache_ttl { Some(ttl) => cache_age <= ttl, None => true }, with
\* cache_age = Utc::now() - cache.updated_at
is_fresh(cache_ttl, at, updated_at) ==
    cache_ttl = None \/ at - updated_at <= cache_ttl[1]

\* the results of the targets against a loaded cache, errors included
matched_in_or_error(cache, targets) ==
    IF cache = None THEN {}
    ELSE match_all_targets(targets, cache[1].resources)

\* the results of the targets against a loaded cache that are Ok
matched_in(cache, targets) ==
    IF cache = None THEN {}
    ELSE {m \in match_all_targets(targets, cache[1].resources) : m.tag = "Ok"}

first_nonempty(a, b) == IF a # {} THEN a ELSE b

\* the Ok arm resolving against the cache when the fresh list fails
resolve_discovered_or_cached(targets, resources, cache) ==
    IF \E m \in match_all_targets(targets, resources) : m.tag = "Ok"
    THEN match_all_targets(targets, resources)
    ELSE first_nonempty(matched_in(cache, targets), match_all_targets(targets, resources))

\* the Ok arm: crate::match_all_targets(targets, &resources)
resolve_discovered(targets, resources, cache) ==
    match_all_targets(targets, resources)

\* the Ok arm with `save_discovery_cache(path, &resources)?`
after_persisting_strict(saved, matched) ==
    IF saved.tag = "Err" THEN {saved} ELSE matched

\* the Ok arm: `let _ = save_discovery_cache(path, &resources);`
after_persisting(saved, matched) == matched

\* the Err arm without the loaded cache
on_discovery_error_unrescued(err, cache, targets) ==
    {Err([kind |-> "FailedToDiscover", source |-> err])}

\* the Err arm: the loaded cache, fresh or not, when it resolves every
\* target, else the error under a context
on_discovery_error(err, cache, targets) ==
    first_nonempty(matched_in(cache, targets),
                   {Err([kind |-> "FailedToDiscover", source |-> err])})

NoArgs == [targets |-> <<>>, cache_path |-> None, cache_ttl |-> None, at |-> 0]

ResolveInit ==
    /\ cluster \in ClusterAnswers
    /\ stage = "idle"
    /\ args = NoArgs
    /\ loaded_cache = None
    /\ discovery = NoResult
    /\ io = <<>>
    /\ returned = NoResult

ResolveIdle ==
    /\ cluster = Err("Unreachable")
    /\ stage = "idle"
    /\ args = NoArgs
    /\ loaded_cache = None
    /\ discovery = NoResult
    /\ io = <<>>
    /\ returned = NoResult

\* resolve_requested_resources up to the await of list_api_resources();
\* `tolerant` tells the load of src/_discover.rs from that of src/discover.rs
ResolveStart(targets, cache_path, cache_ttl, tolerant) ==
    /\ stage \in {"idle", "done"}
    /\ args' = [targets |-> targets, cache_path |-> cache_path,
                cache_ttl |-> cache_ttl, at |-> now]
    /\ discovery' = NoResult
    /\ IF returns_at_once(targets)
       THEN /\ stage' = "done"
            /\ loaded_cache' = None
            /\ io' = <<>>
            /\ returned' = Ok(<<>>)
       ELSE \E loaded \in {IF tolerant THEN load_tolerant(cache_path, file)
                             ELSE load_strict(cache_path, file)} :
            LET read == IF cache_path = None THEN <<>> ELSE <<"load">>
            IN IF loaded.tag = "Err"
               THEN /\ stage' = "done"
                    /\ loaded_cache' = None
                    /\ io' = read
                    /\ returned' = loaded
               ELSE /\ loaded_cache' = loaded.value
                    /\ \E hits \in {IF /\ loaded.value # None
                                       /\ is_fresh(cache_ttl, now, loaded.value[1].updated_at)
                                    THEN matched_in(loaded.value, targets) ELSE {}} :
                        IF hits # {}
                        THEN /\ stage' = "done"
                             /\ io' = read
                             /\ \E m \in hits : returned' = m
                        ELSE /\ stage' = "discovering"
                             /\ io' = Append(read, "discover")
                             /\ returned' = NoResult
    /\ UNCHANGED <<cluster>>
    /\ UNCHANGED <<retryVars, classifyVars, fsVars, storeVars, funVars>>

\* a save after every discovery, failed ones included
persists_always(answer, cache_path) == cache_path # None

\* Ok(resources) => { if let Some(path) = cache_path { save.. } }: the call
\* saves when the discovery answered and there is a cache path
persists(answer, cache_path) == answer.tag = "Ok" /\ cache_path # None

\* the `resources` of the Ok arm; an answer that is an error has none
discovered(answer) == IF answer.tag = "Ok" THEN answer.value ELSE <<>>

\* resolve_requested_resources from the answer of list_api_resources() on;
\* `renaming` tells the save of src/_discover.rs from that of src/discover.rs
ResolveFinish(renaming) ==
    /\ stage = "discovering"
    /\ stage' = "done"
    /\ discovery' = cluster
    /\ IF persists(cluster, args.cache_path)
       THEN \E saved \in {IF renaming
                           THEN save_discovery_cache_renaming(
                                    file, now, discovered(cluster), o.created, o.written)
                           ELSE save_discovery_cache(
                                    file, now, discovered(cluster), o.created, o.written) :
                           o \in SaveOutcomes} :
               /\ file' = saved.file
               /\ last_saved' = after_save(last_saved, file, saved, now, discovered(cluster))
               /\ io' = Append(io, IF saved.result.tag = "Ok" THEN "save" ELSE "save failed")
               /\ \E m \in (IF cluster.tag = "Ok"
                             THEN after_persisting(saved.result,
                                      resolve_discovered(args.targets, cluster.value, loaded_cache))
                             ELSE on_discovery_error(cluster.error, loaded_cache, args.targets)) :
                      returned' = m
       ELSE /\ UNCHANGED <<file, last_saved, io>>
            /\ \E m \in (IF cluster.tag = "Ok"
                          THEN resolve_discovered(args.targets, cluster.value, loaded_cache)
                          ELSE on_discovery_error(cluster.error, loaded_cache, args.targets)) :
                   returned' = m
    /\ UNCHANGED <<cluster, args, loaded_cache>>
    /\ UNCHANGED <<now, last_op>>
    /\ UNCHANGED <<retryVars, classifyVars, fsVars, funVars>>

\* ------------------------------------------------------------------------
\* src/lib.rs, src/_discover.rs : the functions on targets, each applied to
\* one input
\* ------------------------------------------------------------------------
\* longest list of resources enumerated
MaxResources == 2

\* longest list of targets enumerated
MaxTargets == 2

\* the resource of the metrics API that shares its name with the core pods
PodMetrics == APIResource("pods", "", None, Some("metrics.k8s.io"), Some("v1beta1"), "PodMetrics")

Descriptors == {Pods, Services, Deployments, PodMetrics}

\* the sequences over S of at most n elements
SeqsUpTo(S, n) == UNION {[1..k -> S] : k \in 0..n}

\* a target handed to resource_matches_target or resolve_target
Tokens ==
    {"pods", "pod", "po", "Pod", "services", "svc", "deploy", "deployments.apps",
     "pods.metrics.k8s.io", "pods.apps", "apps", "bogus", ""}

\* the targets of a list handed to resolve_all_targets or match_all_targets
TargetTokens == {"pods", "po", "svc", "bogus", "nodes", "pods.metrics.k8s.io"}

FunctionCalls ==
    {[fn |-> "resource_matches_target", target |-> t, api_resource |-> r] :
        t \in Tokens, r \in Descriptors}
    \cup {[fn |-> "resolve_target", target |-> t, api_resources |-> l] :
        t \in Tokens, l \in SeqsUpTo(Descriptors, MaxResources)}
    \cup {[fn |-> "resolve_all_targets", spec |-> sp, resources |-> l] :
        sp \in {AllResources}
                 \cup {AllOf(t) : t \in SeqsUpTo(TargetTokens, MaxTargets)}
                 \cup {AnyOf(t) : t \in SeqsUpTo(TargetTokens, MaxTargets)},
        l \in SeqsUpTo(Descriptors, MaxResources)}
    \cup {[fn |-> "match_all_targets", targets |-> t, resources |-> l] :
        t \in SeqsUpTo(TargetTokens, MaxTargets), l \in SeqsUpTo(Descriptors, MaxResources)}

NoCall == [fn |-> "none"]

\* a call of resource_matches_target(target, api_resource)
CallResourceMatchesTarget ==
    /\ fn_call.fn = "resource_matches_target"
    /\ fn_result = None
    /\ fn_result' = Some(resource_matches_target(fn_call.target, fn_call.api_resource))
    /\ UNCHANGED <<fn_call, config_dir, cache_paths>>
    /\ UNCHANGED <<retryVars, classifyVars, fsVars, storeVars, resolveVars>>

\* a call of resolve_target(target, api_resources)
CallResolveTarget ==
    /\ fn_call.fn = "resolve_target"
    /\ fn_result = None
    /\ fn_result' = Some(resolve_target(fn_call.target, fn_call.api_resources))
    /\ UNCHANGED <<fn_call, config_dir, cache_paths>>
    /\ UNCHANGED <<retryVars, classifyVars, fsVars, storeVars, resolveVars>>

\* a call of resolve_all_targets(spec, resources)
CallResolveAllTargets ==
    /\ fn_call.fn = "resolve_all_targets"
    /\ fn_result = None
    /\ fn_result' = Some(resolve_all_targets(fn_call.spec, fn_call.resources))
    /\ UNCHANGED <<fn_call, config_dir, cache_paths>>
    /\ UNCHANGED <<retryVars, classifyVars, fsVars, storeVars, resolveVars>>

\* a call of match_all_targets(targets, resources)
CallMatchAllTargets ==
    /\ fn_call.fn = "match_all_targets"
    /\ fn_result = None
    /\ \E m \in match_all_targets(fn_call.targets, fn_call.resources) : fn_result' = Some(m)
    /\ UNCHANGED <<fn_call, config_dir, cache_paths>>
    /\ UNCHANGED <<retryVars, classifyVars, fsVars, storeVars, resolveVars>>

\* ------------------------------------------------------------------------
\* src/_discover.rs : discovery_cache_path
\* ------------------------------------------------------------------------
\* longest context name enumerated
MaxContextLen == 2

\* the characters of a context name: letters and digits of ASCII, a letter
\* outside ASCII, the two characters kept besides, and two that a path reads
Chars == {"a", "7", "-", "_", "/", ".", "é"}

\* char::is_ascii_alphanumeric
is_ascii_alphanumeric(ch) == ch \in {"a", "7"}

\* the context left as it is
sanitized_context_unchanged(context) == context

\* context.chars().map(..).collect::<String>()
sanitized_context(context) ==
    [i \in 1..Len(context) |->
        IF is_ascii_alphanumeric(context[i]) \/ context[i] = "-" \/ context[i] = "_"
        THEN context[i] ELSE "_"]

\* the components of a relative or absolute path given as characters, as
\* Path::components() yields them: split at '/', without empty ones and
\* without "."
RECURSIVE components(_, _, _)
components(chars, current, done) ==
    IF chars = <<>>
    THEN IF current \in {<<>>, <<".">>} THEN done ELSE Append(done, current)
    ELSE IF Head(chars) = "/"
    THEN components(Tail(chars), <<>>,
                    IF current \in {<<>>, <<".">>} THEN done ELSE Append(done, current))
    ELSE components(Tail(chars), Append(current, Head(chars)), done)

\* PathBuf::join: an absolute path replaces the base, a relative one extends it
join(base, path) ==
    IF path # <<>> /\ path[1] = "/" THEN components(path, <<>>, <<>>)
    ELSE base \o components(path, <<>>, <<>>)

\* dirs::config_dir(), when there is one
ConfigDir == << <<"h", "o", "m", "e">>, <<".", "c", "o", "n", "f", "i", "g">> >>

\* format!("{sanitized_context}.json")
file_name(sanitized) == sanitized \o <<".", "j", "s", "o", "n">>

discovery_cache_path(home, context) ==
    IF home = None THEN None
    ELSE Some(join(join(home[1], <<"k", "e", "y", "e">>),
                   file_name(sanitized_context(context))))

FunInit ==
    /\ fn_call \in FunctionCalls
    /\ fn_result = None
    /\ config_dir = None
    /\ cache_paths = {}

FunIdle ==
    /\ fn_call = NoCall
    /\ fn_result = None
    /\ config_dir = None
    /\ cache_paths = {}

PathInit ==
    /\ fn_call = NoCall
    /\ fn_result = None
    /\ config_dir \in {None, Some(ConfigDir)}
    /\ cache_paths = {}

\* a call of discovery_cache_path(context), for one context and then another
DiscoveryCachePath(context) ==
    /\ Cardinality(cache_paths) < 2
    /\ \A p \in cache_paths : p.context # context
    /\ cache_paths' = cache_paths \cup
           {[context |-> context, key |-> sanitized_context(context),
             path |-> discovery_cache_path(config_dir, context)]}
    /\ UNCHANGED <<fn_call, fn_result, config_dir>>
    /\ UNCHANGED <<retryVars, classifyVars, fsVars, storeVars, resolveVars>>

\* ------------------------------------------------------------------------
\* Specifications
\* ------------------------------------------------------------------------
RetryIdle == RetryInit({}, {RetryPolicyDefault})

\* one retry_with_policy call
Init == RetryInit({"t1"}, Policies) /\ ClassifyIdle /\ FsIdle /\ StoreIdle /\ ResolveIdle /\ FunIdle

Next ==
    \/ \E t \in DOMAIN pc : Begin(t)
    \/ \E t \in DOMAIN pc : Invoke(t, MaxCalls)
    \/ \E t \in DOMAIN pc : Complete(t)
    \/ \E t \in DOMAIN pc : Wake(t)

Spec == Init /\ [][Next]_vars

\* one retry_with_policy call whose awaits all complete: the operation
\* returns and the sleep ends
SpecTerminating == Init /\ [][Next]_vars /\ WF_vars(Next)

\* several retry_with_policy calls sharing one policy
Calls == {"t1", "t2"}

InitConc == RetryInit(Calls, Policies) /\ ClassifyIdle /\ FsIdle /\ StoreIdle /\ ResolveIdle /\ FunIdle

NextConc ==
    \/ \E t \in DOMAIN pc : Begin(t)
    \/ \E t \in DOMAIN pc : Invoke(t, ConcMaxCalls)
    \/ \E t \in DOMAIN pc : Complete(t)
    \/ \E t \in DOMAIN pc : Wake(t)

SpecConc == InitConc /\ [][NextConc]_vars

\* watch_with_retry and the consumer of the stream it returns
NextWatch ==
    \/ \E t \in DOMAIN pc : Begin(t)
    \/ \E t \in DOMAIN pc : Invoke(t, ConcMaxCalls)
    \/ \E t \in DOMAIN pc : Complete(t)
    \/ \E t \in DOMAIN pc : Wake(t)
    \/ \E t \in DOMAIN pc : PollStream(t, MaxItems)

SpecWatch == Init /\ [][NextWatch]_vars

\* the default classifier applied to one error
InitClassify == RetryIdle /\ ClassifyInit /\ FsIdle /\ StoreIdle /\ ResolveIdle /\ FunIdle

NextClassify == Classify

SpecClassify == InitClassify /\ [][NextClassify]_vars

\* src/discover.rs: saves that write the target in place, and a load
InitCache == RetryIdle /\ ClassifyIdle /\ FsInit /\ StoreIdle /\ ResolveIdle /\ FunIdle

NextCache ==
    \/ \E w \in Writers : SaveStart(w)
    \/ \E w \in Writers : WriteOpen(w, "target")
    \/ \E w \in Writers : WriteChunk(w, "done")
    \/ \E r \in Readers : ReadOpen(r)
    \/ \E r \in Readers : ReadChunk(r)

SpecCache == InitCache /\ [][NextCache]_vars

\* src/_discover.rs: saves that write <target>.json.tmp and rename it, and a load
NextCacheTmp ==
    \/ \E w \in Writers : SaveStart(w)
    \/ \E w \in Writers : WriteOpen(w, "tmp")
    \/ \E w \in Writers : WriteChunk(w, "rename")
    \/ \E w \in Writers : Rename(w)
    \/ \E r \in Readers : ReadOpen(r)
    \/ \E r \in Readers : ReadChunk(r)

SpecCacheTmp == InitCache /\ [][NextCacheTmp]_vars

\* src/discover.rs and src/lib.rs: direct calls on the cache store
InitStore == RetryIdle /\ ClassifyIdle /\ FsIdle /\ StoreInit /\ ResolveIdle /\ FunIdle

NextStore ==
    \/ Tick
    \/ \E r \in ResourceLists, o \in SaveOutcomes : SaveCache(r, o.created, o.written)
    \/ LoadCache
    \/ \E spec \in TargetSpecs, cache_ttl \in CacheTtls : ResolveWithCache(spec, cache_ttl)

SpecStore == InitStore /\ [][NextStore]_vars

\* src/discover.rs: resolve_requested_resources
InitResolve == RetryIdle /\ ClassifyIdle /\ FsIdle /\ StoreInit /\ ResolveInit /\ FunIdle

NextResolve ==
    \/ Tick
    \/ \E targets \in TargetLists, cache_path \in {None, Some(CachePath)},
          cache_ttl \in CacheTtls :
           ResolveStart(targets, cache_path, cache_ttl, FALSE)
    \/ ResolveFinish(FALSE)

SpecResolve == InitResolve /\ [][NextResolve]_vars

\* src/_discover.rs: resolve_requested_resources, whose time-to-live is fixed
NextResolveRenaming ==
    \/ Tick
    \/ \E targets \in TargetLists, cache_path \in {None, Some(CachePath)} :
           ResolveStart(targets, cache_path, Some(DISCOVERY_CACHE_TTL_SECS), TRUE)
    \/ ResolveFinish(TRUE)

SpecResolveRenaming == InitResolve /\ [][NextResolveRenaming]_vars

\* src/lib.rs and src/_discover.rs: the functions on targets
InitTargets == RetryIdle /\ ClassifyIdle /\ FsIdle /\ StoreIdle /\ ResolveIdle /\ FunInit

NextTargets ==
    \/ CallResourceMatchesTarget
    \/ CallResolveTarget
    \/ CallResolveAllTargets
    \/ CallMatchAllTargets

SpecTargets == InitTargets /\ [][NextTargets]_vars

\* src/_discover.rs: the cache paths of the contexts
InitPaths == RetryIdle /\ ClassifyIdle /\ FsIdle /\ StoreIdle /\ ResolveIdle /\ PathInit

NextPaths == \E context \in SeqsUpTo(Chars, MaxContextLen) : DiscoveryCachePath(context)

SpecPaths == InitPaths /\ [][NextPaths]_vars

\* ------------------------------------------------------------------------
\* Properties of retry_with_policy
\* ------------------------------------------------------------------------
RetryableFailure(o) == o.tag = "Err" /\ is_retryable(policy, o.error)

FatalFailure(o) == o.tag = "Err" /\ ~is_retryable(policy, o.error)

AllRetryableFailures(h) == \A i \in 1..Len(h) : RetryableFailure(h[i])

\* C1: under a finite limit n, while every invocation fails with an error
\* the classifier marks retryable, the call goes on until the n-th
\* invocation and returns there: exactly n invocations, and the returned
\* value is Err of the n-th invocation's own error, unwrapped.
C1_ExhaustsAfterNAttempts ==
    \A t \in DOMAIN pc :
        (policy.max_attempts.tag = "Finite" /\ AllRetryableFailures(outcomes[t])) =>
            LET n == policy.max_attempts.n
                k == Len(outcomes[t])
            IN /\ invocations[t] <= n
               /\ k < n => (pc[t] # "done" /\ result[t] = NoResult)
               /\ k = n => /\ pc[t] = "done"
                           /\ invocations[t] = n
                           /\ result[t] = outcomes[t][n]
                           /\ result[t].tag = "Err"
                           /\ result[t].error.seq = n

C1_Witness ==
    \E t \in DOMAIN pc :
        /\ policy.max_attempts.tag = "Finite"
        /\ policy.max_attempts.n >= 3
        /\ pc[t] = "done"
        /\ Len(outcomes[t]) = policy.max_attempts.n
        /\ AllRetryableFailures(outcomes[t])

\* C2: under any policy, an invocation failing with an error the classifier
\* marks non-retryable is the last one: the call has returned that same
\* error, no sleep followed it (there is one sleep per earlier failure), and
\* when it is the first invocation the operation ran exactly once.
C2_StopsOnNonRetryable ==
    \A t \in DOMAIN pc :
        \A i \in 1..Len(outcomes[t]) :
            FatalFailure(outcomes[t][i]) =>
                /\ i = Len(outcomes[t])
                /\ invocations[t] = i
                /\ pc[t] = "done"
                /\ result[t] = outcomes[t][i]
                /\ Len(slept[t]) = i - 1

C2_Witness ==
    \E t \in DOMAIN pc :
        /\ policy.max_attempts.tag = "Unlimited"
        /\ pc[t] = "done"
        /\ Len(outcomes[t]) = 1
        /\ FatalFailure(outcomes[t][1])
        /\ invocations[t] = 1

\* C3: when attempts 1..k-1 fail with retryable errors and the limit allows
\* a k-th attempt (unlimited, or finite and >= k), the call does not return
\* before attempt k; when attempt k succeeds the operation has been invoked
\* exactly k times and the call returns Ok with attempt k's value.
C3_SucceedsOnAttemptK ==
    \A t \in DOMAIN pc :
        \A k \in 1..Len(outcomes[t]) :
            (/\ \A i \in 1..(k - 1) : RetryableFailure(outcomes[t][i])
             /\ policy.max_attempts.tag = "Finite" => policy.max_attempts.n >= k
             /\ outcomes[t][k].tag = "Ok") =>
                /\ k = Len(outcomes[t])
                /\ invocations[t] = k
                /\ pc[t] = "done"
                /\ result[t] = Ok(k)

\* the other half of C3: failures that leave attempts do not end the call
C3_KeepsTrying ==
    \A t \in DOMAIN pc :
        (/\ AllRetryableFailures(outcomes[t])
         /\ policy.max_attempts.tag = "Finite" => policy.max_attempts.n > Len(outcomes[t])) =>
            pc[t] # "done"

C3_Theorem == C3_SucceedsOnAttemptK /\ C3_KeepsTrying

C3_Witness ==
    \E t \in DOMAIN pc :
        /\ policy.max_attempts.tag = "Unlimited"
        /\ pc[t] = "done"
        /\ result[t] = Ok(7)
        /\ invocations[t] = 7

NonDecreasing(q) == \A i \in 1..Len(q) : \A j \in i..Len(q) : q[i] <= q[j]

\* C4: for every policy, also one with initial_backoff > max_backoff or a
\* backoff_multiplier below 1.0, the durations slept by a call never
\* decrease and none exceeds max_backoff.
C4_BackoffMonotoneAndCapped ==
    \A t \in DOMAIN pc :
        /\ NonDecreasing(slept[t])
        /\ \A i \in 1..Len(slept[t]) : slept[t][i] <= policy.max_backoff

C4_Witness ==
    \E t \in DOMAIN pc :
        /\ policy.backoff_multiplier.num < policy.backoff_multiplier.den
        /\ policy.initial_backoff > policy.max_backoff
        /\ policy.max_backoff > 0
        /\ Len(slept[t]) >= 3

RECURSIVE Pow(_, _)
Pow(b, e) == IF e = 0 THEN 1 ELSE b * Pow(b, e - 1)

\* the multiplier a policy applies: its field, never below 1.0 (the model's
\* policies have an integral value here)
EffectiveMultiplier(p) ==
    IF p.backoff_multiplier.num < p.backoff_multiplier.den
    THEN 1
    ELSE p.backoff_multiplier.num \div p.backoff_multiplier.den

ClosedFormBackoff(p, i) ==
    Min(p.initial_backoff * Pow(EffectiveMultiplier(p), i - 1), p.max_backoff)

\* C5: the i-th sleep of a call is min(initial_backoff * multiplier^(i-1),
\* max_backoff), the multiplier being the policy's clamped (>= 1.0) one;
\* with initial 200 ms, multiplier 2.0 and max 5 s the sleeps are
\* 200, 400, 800, 1600, 3200, 5000, 5000.
C5_BackoffClosedForm ==
    \A t \in DOMAIN pc :
        /\ \A i \in 1..Len(slept[t]) : slept[t][i] = ClosedFormBackoff(policy, i)
        /\ (/\ policy.initial_backoff = 200
            /\ policy.max_backoff = 5000
            /\ policy.backoff_multiplier = [num |-> 2, den |-> 1]) =>
               \A i \in 1..Len(slept[t]) :
                   i <= 7 => slept[t][i] = <<200, 400, 800, 1600, 3200, 5000, 5000>>[i]

C5_Witness ==
    \E t \in DOMAIN pc :
        /\ policy.initial_backoff = 200
        /\ policy.max_backoff = 5000
        /\ policy.backoff_multiplier = [num |-> 2, den |-> 1]
        /\ slept[t] = <<200, 400, 800, 1600, 3200, 5000, 5000>>

\* ------------------------------------------------------------------------
\* Properties of default_retryable_error
\* ------------------------------------------------------------------------
\* C6: the default classifier answers true for an Api error exactly when its
\* code is 408, 429 or one of 500..=599 (so false for 404 and every other
\* code), and true for every error that carries no status code.
C6_DefaultClassifier ==
    verdict # <<>> =>
        IF error_in.kind = "Api"
        THEN verdict[1] = (\/ error_in.code = 408
                           \/ error_in.code = 429
                           \/ (error_in.code >= 500 /\ error_in.code <= 599))
        ELSE verdict[1] = TRUE

C6_Witness ==
    /\ error_in.kind = "Api"
    /\ error_in.code = 599
    /\ verdict = <<TRUE>>

\* ------------------------------------------------------------------------
\* Properties of concurrent calls and of the watch wrappers
\* ------------------------------------------------------------------------
\* the outcome after which a call running alone returns
StopsAt(p, h, k) ==
    \/ h[k].tag = "Ok"
    \/ (p.max_attempts.tag = "Finite" /\ k >= p.max_attempts.n)
    \/ ~is_retryable(p, h[k].error)

\* what a call that ran alone under policy p and saw the outcomes h has
\* done: it returned at the first outcome that stops it, having slept the
\* closed-form backoff once after each earlier outcome
AloneView(p, h) ==
    LET stops == {k \in 1..Len(h) : StopsAt(p, h, k)}
    IN IF stops = {}
       THEN [returned |-> FALSE,
             result |-> NoResult,
             slept |-> [i \in 1..Len(h) |-> ClosedFormBackoff(p, i)]]
       ELSE [returned |-> TRUE,
             result |-> h[Len(h)],
             slept |-> [i \in 1..(Len(h) - 1) |-> ClosedFormBackoff(p, i)]]

C7_Isolated ==
    \A t \in DOMAIN pc :
        LET v == AloneView(policy, outcomes[t])
        IN /\ \A k \in 1..(Len(outcomes[t]) - 1) : ~StopsAt(policy, outcomes[t], k)
           /\ (pc[t] = "done") = v.returned
           /\ result[t] = v.result
           /\ slept[t] = v.slept
           /\ attempts[t] = invocations[t]
           /\ invocations[t] = Len(outcomes[t]) + (IF pc[t] = "awaiting" THEN 1 ELSE 0)
           /\ pc[t] \in {"loop", "awaiting"} =>
                  backoff[t] = ClosedFormBackoff(policy, Len(slept[t]) + 1)
           /\ pc[t] = "sleeping" =>
                  backoff[t] = ClosedFormBackoff(policy, Len(slept[t]))

\* C7: calls that run interleaved on one shared policy do not affect each
\* other: each call's attempt counter, backoff, invocation count, sleeps and
\* result are those of a call running alone on its own outcomes, and no
\* step changes the policy.
C7_ConcurrentCallsIsolated == [](C7_Isolated) /\ [][policy' = policy]_vars

C7_Witness ==
    /\ policy.initial_backoff = 200
    /\ policy.max_backoff = 5000
    /\ policy.backoff_multiplier = [num |-> 2, den |-> 1]
    /\ pc["t1"] = "sleeping"
    /\ pc["t2"] = "sleeping"
    /\ slept["t1"] = <<200, 400>>
    /\ slept["t2"] = <<200>>

\* C8: once an attempt to establish the watch has returned a stream, the
\* retry loop has returned Ok with it, and whatever the stream yields
\* afterwards, errors included, the watch operation is not invoked again:
\* the invocation count stays at the attempt that produced the stream.
C8_RetryOnlyAtEstablishment ==
    \A t \in DOMAIN pc :
        /\ (\E k \in 1..Len(outcomes[t]) : outcomes[t][k].tag = "Ok") => result[t].tag = "Ok"
        /\ result[t].tag = "Ok" =>
               /\ pc[t] = "done"
               /\ invocations[t] = result[t].value
               /\ Len(outcomes[t]) = result[t].value
        /\ items[t] # <<>> => result[t].tag = "Ok"

C8_Witness ==
    \E t \in DOMAIN pc :
        /\ result[t] = Ok(2)
        /\ items[t] = <<"event", "error", "event">>

\* ------------------------------------------------------------------------
\* Properties of the cache file
\* ------------------------------------------------------------------------
\* what a load may see when writes are never torn: no file, or one whole
\* snapshot (the earlier one or a writer's)
WholeSnapshot(bytes) == \E x \in Writers \cup {"w0"} : bytes = cache_data(x)

Untorn(obs) == obs.tag = "NotFound" \/ (obs.tag = "Content" /\ WholeSnapshot(obs.data))

\* C9: a load interleaved with a single save sees the whole previous content
\* (or no file) or the whole new content, never a partial write.
C9_NoPartialRead ==
    Cardinality({w \in Writers : wpc[w] # "idle"}) <= 1 =>
        \A r \in Readers : observed[r] # NotRead => Untorn(observed[r])

\* C10: with saves racing on one path, every load sees one whole snapshot
\* (or no file), and once every save has finished, one of them
\* successfully, the target holds exactly one writer's whole snapshot.
C10_LastWriterWins ==
    /\ \A r \in Readers : observed[r] # NotRead => Untorn(observed[r])
    /\ (/\ \A w \in Writers : wpc[w] \in {"done", "failed"}
        /\ \E w \in Writers : wpc[w] = "done") =>
           /\ dir.target # 0
           /\ \E w \in Writers : files[dir.target] = cache_data(w)

\* ------------------------------------------------------------------------
\* Properties of the cache store called directly
\* ------------------------------------------------------------------------
\* C11: once a save has succeeded and no later save has failed on the file,
\* a load returns the snapshot of the most recent save: the descriptor list
\* passed to it, in the same order, and nothing of what the file held before.
C11_SaveThenLoadRoundTrips ==
    (last_op.op = "load" /\ last_saved # NoSave) =>
        last_op.returned = Ok(last_saved.cache_file)

C11_Witness ==
    /\ last_op.op = "load"
    /\ last_saved = Saved(DiscoveryCacheFile(1, <<Services, Pods>>))
    /\ last_op.returned = Ok(DiscoveryCacheFile(1, <<Services, Pods>>))

\* ------------------------------------------------------------------------
\* Properties of resolve_requested_resources
\* ------------------------------------------------------------------------
\* the age of the loaded cache when the call looked at it
CacheAge == args.at - loaded_cache[1].updated_at

\* the loaded cache is no older than the time-to-live, or there is none
WithinTtl == args.cache_ttl = None \/ CacheAge <= args.cache_ttl[1]

\* a cache was loaded and resolves every target
CacheResolvesAll == loaded_cache # None /\ matched_in(loaded_cache, args.targets) # {}

\* the call returned from the loaded cache before any discovery
ServedFromCache == stage = "done" /\ io = <<"load">> /\ discovery = NoResult

\* C12: a loaded cache that resolves every target is used in place of a
\* discovery exactly when there is no time-to-live or its age, now minus its
\* timestamp, is at most the time-to-live, the bound included.
C12_FreshIffWithinTtl ==
    (stage # "idle" /\ CacheResolvesAll) => (ServedFromCache <=> WithinTtl)

C12_Witness ==
    /\ ServedFromCache
    /\ CacheResolvesAll
    /\ args.cache_ttl = Some(DISCOVERY_CACHE_TTL_SECS)
    /\ CacheAge = DISCOVERY_CACHE_TTL_SECS

\* C13: a call with no targets returns an empty list and has done no I/O:
\* no load, no discovery, no save.
C13_EmptyTargetsNoIo ==
    (stage # "idle" /\ args.targets = <<>>) =>
        /\ stage = "done"
        /\ returned = Ok(<<>>)
        /\ io = <<>>
        /\ discovery = NoResult

C13_Witness ==
    /\ stage = "done"
    /\ args.targets = <<>>
    /\ args.cache_path # None
    /\ file = Unreadable
    /\ returned = Ok(<<>>)

\* C14: when the loaded cache is fresh and resolves every target, the call
\* returns the descriptors resolved from it and has neither asked the
\* cluster nor written the cache.
C14_FreshCacheServesWithoutDiscovery ==
    (stage # "idle" /\ CacheResolvesAll /\ WithinTtl) =>
        /\ stage = "done"
        /\ returned \in matched_in(loaded_cache, args.targets)
        /\ io = <<"load">>
        /\ discovery = NoResult

C14_Witness ==
    /\ stage = "done"
    /\ args.targets = <<"svc", "po">>
    /\ args.cache_ttl # None
    /\ cluster.tag = "Err"
    /\ returned.tag = "Ok"
    /\ returned.value \in {<<Pods, Services>>, <<Services, Pods>>}

\* C15: when the discovery failed and the loaded cache, fresh or stale,
\* resolves every target, the call returns the descriptors resolved from
\* that cache.
C15_DiscoveryFailureFallsBackToCache ==
    (stage = "done" /\ discovery.tag = "Err" /\ CacheResolvesAll) =>
        returned \in matched_in(loaded_cache, args.targets)

C15_Witness ==
    /\ stage = "done"
    /\ discovery.tag = "Err"
    /\ CacheResolvesAll
    /\ ~WithinTtl
    /\ returned.tag = "Ok"

\* every result of the targets against the list is an error
ResolvesNotAll(targets, resources) ==
    \A m \in match_all_targets(targets, resources) : m.tag = "Err"

\* C16: a call with targets, made while the cluster cannot be discovered and
\* with no cache to rescue it (no cache path, no file at the path, or a
\* cache that does not resolve every target), returns the discovery error
\* under its context.
C16_UnrescuedDiscoveryError ==
    (/\ stage = "done"
     /\ args.targets # <<>>
     /\ cluster.tag = "Err"
     /\ \/ args.cache_path = None
        \/ file = Missing
        \/ /\ load_discovery_cache(file).tag = "Ok"
           /\ ResolvesNotAll(args.targets, load_discovery_cache(file).value.resources)) =>
        returned = Err([kind |-> "FailedToDiscover", source |-> cluster.error])

\* C17: a call with targets and a cache path whose file gave no cache (it
\* is missing, unreadable or does not parse) goes on to the discovery, and
\* returns the targets resolved against the discovered list when the
\* discovery succeeds and resolves them all.
C17_TolerantLoad ==
    (/\ stage = "done"
     /\ args.targets # <<>>
     /\ args.cache_path # None
     /\ loaded_cache = None
     /\ cluster.tag = "Ok"
     /\ ~ResolvesNotAll(args.targets, cluster.value)) =>
        /\ discovery = cluster
        /\ returned \in match_all_targets(args.targets, cluster.value)

\* the save of the call failed
PersistFailed == io # <<>> /\ io[Len(io)] = "save failed"

\* C18: when the discovery succeeded and the save of the new snapshot
\* failed, the call returns what the targets resolve to against the
\* discovered list, as it does when the save succeeds.
C18_PersistFailureSwallowed ==
    (stage = "done" /\ discovery.tag = "Ok" /\ PersistFailed) =>
        returned \in match_all_targets(args.targets, discovery.value)

C18_Witness ==
    /\ stage = "done"
    /\ discovery.tag = "Ok"
    /\ PersistFailed
    /\ load_discovery_cache(file).tag = "Err"
    /\ returned.tag = "Ok"
    /\ returned.value # <<>>

\* C19: when the discovery succeeded and some target does not resolve
\* against the discovered list, the call returns the resolution error of
\* that list, also when the loaded cache resolves every target.
C19_NoFallbackAfterDiscovery ==
    (stage = "done" /\ discovery.tag = "Ok"
        /\ ResolvesNotAll(args.targets, discovery.value)) =>
        /\ returned.tag = "Err"
        /\ returned \in match_all_targets(args.targets, discovery.value)

C19_Witness ==
    /\ stage = "done"
    /\ discovery.tag = "Ok"
    /\ CacheResolvesAll
    /\ returned = Err([kind |-> "ResourceNotFound", targets |-> <<"svc">>])

\* ------------------------------------------------------------------------
\* Properties of resolve_requested_resources_with_cache
\* ------------------------------------------------------------------------
\* C20: a cache-only call that loaded a cache older than the time-to-live
\* it was given returns the expiry error, which carries the path, the age
\* measured and the time-to-live, and resolves nothing; with an age of at
\* most the time-to-live, or with none given, it does not return an expiry
\* error.
C20_ExpiredCacheFails ==
    (last_op.op = "resolve_with_cache" /\ last_op.cache # None) =>
        LET age == last_op.at - last_op.cache[1].updated_at
        IN IF last_op.cache_ttl # None /\ age > last_op.cache_ttl[1]
           THEN /\ last_op.returned =
                       Err([kind |-> "CacheExpired", cache_path |-> CachePath,
                            cache_age |-> age, ttl |-> last_op.cache_ttl[1]])
                /\ ~last_op.resolved
           ELSE /\ last_op.resolved
                /\ \/ last_op.returned.tag = "Ok"
                   \/ last_op.returned.error.kind # "CacheExpired"

C20_Witness ==
    /\ last_op.op = "resolve_with_cache"
    /\ last_op.spec = AllOf(<<"pods">>)
    /\ last_op.returned =
           Err([kind |-> "CacheExpired", cache_path |-> CachePath,
                cache_age |-> DISCOVERY_CACHE_TTL_SECS + 1, ttl |-> DISCOVERY_CACHE_TTL_SECS])

\* C21: a cache-only call never asks the cluster; when the file at the path
\* is missing, unreadable or does not parse it returns the error of the
\* load, never a success, and when a cache was loaded and has not expired it
\* returns exactly resolve_all_targets(spec, the cached descriptors).
C21_CacheOnlyNeverSwallows ==
    last_op.op = "resolve_with_cache" =>
        /\ discovery = NoResult
        /\ io = <<>>
        /\ (file.tag # "File" \/ from_str(file.data) = None) =>
               /\ last_op.returned.tag = "Err"
               /\ last_op.returned.error.kind \in {"FailedToRead", "FailedToParse"}
               /\ ~last_op.resolved
        /\ (file.tag = "File" /\ from_str(file.data) # None
               /\ (last_op.cache_ttl = None
                      \/ last_op.at - from_str(file.data)[1].updated_at <= last_op.cache_ttl[1])) =>
               last_op.returned = resolve_all_targets(last_op.spec, from_str(file.data)[1].resources)

C21_Witness ==
    /\ last_op.op = "resolve_with_cache"
    /\ last_op.spec = AllResources
    /\ file = File(<<>>)
    /\ last_op.returned = Err([kind |-> "FailedToParse"])

\* ------------------------------------------------------------------------
\* C22 - C27 : the functions on targets
\* ------------------------------------------------------------------------
\* the names a resource answers to: its plural name, its singular name, its
\* short names, and "<plural>.<group>" when it has a group
NamesOf(r) ==
    {r.name, r.singular_name}
    \cup (IF r.short_names = None THEN {}
          ELSE {r.short_names[1][i] : i \in DOMAIN r.short_names[1]})
    \cup (IF r.group = None THEN {} ELSE {qualified_name(r.name, r.group[1])})

\* C22: resource_matches_target(token, descriptor) is true exactly when the
\* token is the descriptor's plural name, its singular name, one of its short
\* names, or "<plural>.<group>"; it is false for every other token.
C22_MatchesIffNamed ==
    (fn_call.fn = "resource_matches_target" /\ fn_result # None) =>
        fn_result[1] = (fn_call.target \in NamesOf(fn_call.api_resource))

C22_Witness ==
    /\ fn_call.fn = "resource_matches_target"
    /\ fn_call.target = "pods.metrics.k8s.io"
    /\ fn_call.api_resource = PodMetrics
    /\ fn_result = Some(TRUE)

\* C23: resolve_target(token, descriptors) returns the matching descriptor of
\* the smallest index, and none exactly when no descriptor of the list matches.
C23_FirstMatchInListOrder ==
    (fn_call.fn = "resolve_target" /\ fn_result # None) =>
        LET l == fn_call.api_resources
            hits == {i \in DOMAIN l : fn_call.target \in NamesOf(l[i])}
        IN /\ (fn_result[1] = None) <=> (hits = {})
           /\ fn_result[1] # None =>
                  \E i \in hits : /\ fn_result[1] = Some(l[i])
                                  /\ \A j \in hits : i <= j

C23_Witness ==
    /\ fn_call.fn = "resolve_target"
    /\ fn_call.target = "pods"
    /\ fn_call.api_resources = <<PodMetrics, Pods>>
    /\ fn_result = Some(Some(PodMetrics))

\* a call that resolves a list of tokens all of which must resolve: the
\* AllOf arm of resolve_all_targets, or match_all_targets
AllOfCalled ==
    \/ fn_call.fn = "match_all_targets"
    \/ fn_call.fn = "resolve_all_targets" /\ fn_call.spec.tag = "AllOf"

CalledTargets ==
    IF fn_call.fn = "match_all_targets" THEN fn_call.targets ELSE fn_call.spec.targets

\* what each token of the call resolves to, by the smallest matching index
ResolvedAt(i) ==
    LET l == fn_call.resources
        hits == {k \in DOMAIN l : CalledTargets[i] \in NamesOf(l[k])}
    IN IF hits = {} THEN None ELSE Some(l[CHOOSE k \in hits : \A j \in hits : k <= j])

UnresolvedIndices == {i \in DOMAIN CalledTargets : ResolvedAt(i) = None}

\* the position of a token in the lexicographic order of the tokens
TokenRank(t) ==
    CASE t = "bogus" -> 1
      [] t = "nodes" -> 2
      [] t = "po" -> 3
      [] t = "pods" -> 4
      [] t = "pods.metrics.k8s.io" -> 5
      [] t = "svc" -> 6

\* C24 as stated: AllOf fails exactly when a token is unresolved, and the
\* error names every unresolved token, the list being sorted.
C24_ErrorNamesUnresolvedSorted ==
    (AllOfCalled /\ fn_result # None) =>
        /\ (fn_result[1].tag = "Err") <=> (UnresolvedIndices # {})
        /\ fn_result[1].tag = "Err" =>
              LET named == fn_result[1].error.targets
              IN /\ {named[k] : k \in DOMAIN named}
                        = {CalledTargets[i] : i \in UnresolvedIndices}
                 /\ \A j, k \in DOMAIN named :
                        j < k => TokenRank(named[j]) <= TokenRank(named[k])

\* C24, amended: AllOf fails exactly when a token is unresolved, and the error
\* names every unresolved token, in the order of the tokens of the request.
C24_ErrorNamesUnresolvedInTokenOrder ==
    (AllOfCalled /\ fn_result # None) =>
        /\ (fn_result[1].tag = "Err") <=> (UnresolvedIndices # {})
        /\ fn_result[1].tag = "Err" =>
              fn_result[1].error.targets
                  = SelectSeq(CalledTargets,
                              LAMBDA t : \A r \in {fn_call.resources[k] : k \in DOMAIN fn_call.resources} :
                                             t \notin NamesOf(r))

C24_Witness ==
    /\ fn_call.fn = "resolve_all_targets"
    /\ fn_call.spec = AllOf(<<"nodes", "bogus">>)
    /\ fn_call.resources = <<Pods, Services>>
    /\ fn_result # None
    /\ fn_result[1].tag = "Err"
    /\ fn_result[1].error.targets = <<"nodes", "bogus">>

\* the indices of the tokens that are the first to resolve to a resource of
\* their plural name
FirstOfName ==
    {i \in DOMAIN CalledTargets :
        \A j \in 1..(i - 1) : ResolvedAt(j)[1].name # ResolvedAt(i)[1].name}

\* C25: when every token of AllOf resolves, the result holds each resolved
\* descriptor once (one per plural name), in the order of the first token
\* that resolved to it.
C25_AllOfDedupFirstTokenOrder ==
    (AllOfCalled /\ fn_result # None /\ UnresolvedIndices = {}) =>
        LET first == SelectSeq([i \in DOMAIN CalledTargets |-> i],
                               LAMBDA i : i \in FirstOfName)
        IN fn_result[1] = Ok([k \in DOMAIN first |-> ResolvedAt(first[k])[1]])

AnyOfCalled == fn_call.fn = "resolve_all_targets" /\ fn_call.spec.tag = "AnyOf"

\* the indices of the tokens that resolve, and are the first to resolve to a
\* resource of their name, group and version
FirstOfKey ==
    {i \in DOMAIN CalledTargets :
        /\ ResolvedAt(i) # None
        /\ \A j \in 1..(i - 1) :
               ResolvedAt(j) = None
               \/ <<ResolvedAt(j)[1].name, ResolvedAt(j)[1].group, ResolvedAt(j)[1].version>>
                      # <<ResolvedAt(i)[1].name, ResolvedAt(i)[1].group, ResolvedAt(i)[1].version>>}

\* C26: when a token of AnyOf resolves, the result holds the resolved
\* descriptors, no two of the same name, group and version, in the order of
\* the first token that resolved to each; unresolved tokens are ignored.
C26_AnyOfDedupFirstSuccessOrder ==
    (AnyOfCalled /\ fn_result # None /\ FirstOfKey # {}) =>
        LET first == SelectSeq([i \in DOMAIN CalledTargets |-> i],
                               LAMBDA i : i \in FirstOfKey)
            value == fn_result[1].value
        IN /\ fn_result[1] = Ok([k \in DOMAIN first |-> ResolvedAt(first[k])[1]])
           /\ \A j, k \in DOMAIN value :
                  j # k => <<value[j].name, value[j].group, value[j].version>>
                               # <<value[k].name, value[k].group, value[k].version>>

C26_Witness ==
    /\ AnyOfCalled
    /\ fn_call.spec.targets = <<"po", "bogus">>
    /\ fn_call.resources = <<Pods, Services>>
    /\ fn_result = Some(Ok(<<Pods>>))

\* C27: AnyOf fails exactly when none of its tokens resolves (an empty list
\* of tokens included), and the error names all the tokens of the request.
C27_AnyOfFailsIffNoneResolves ==
    (AnyOfCalled /\ fn_result # None) =>
        /\ (fn_result[1].tag = "Err") <=> (UnresolvedIndices = DOMAIN CalledTargets)
        /\ fn_result[1].tag = "Err" => fn_result[1].error.targets = CalledTargets

C27_Witness ==
    /\ AnyOfCalled
    /\ fn_call.spec.targets = <<"nodes", "bogus">>
    /\ fn_call.resources = <<Pods, Services>>
    /\ fn_result # None
    /\ fn_result[1].tag = "Err"
    /\ fn_result[1].error.targets = <<"nodes", "bogus">>

\* ------------------------------------------------------------------------
\* C28, C29 : the cache key and the cache path of a context
\* ------------------------------------------------------------------------
\* the alphanumeric characters among Chars, those outside ASCII included
Alphanumerics == {"a", "7", "é"}

\* the alphanumeric characters of ASCII among Chars
AsciiAlphanumerics == {"a", "7"}

\* the key has the length of the context name and holds neither a path
\* separator nor a '.', and the path, when there is a config directory, is
\* the file <key>.json of the directory keye of the config directory
KeyIsSafe(p) ==
    /\ Len(p.key) = Len(p.context)
    /\ \A i \in DOMAIN p.key : p.key[i] \notin {"/", "."}
    /\ p.path # None =>
           p.path[1] = ConfigDir \o << <<"k", "e", "y", "e">>,
                                       p.key \o <<".", "j", "s", "o", "n">> >>

\* C28 as stated: the key keeps every alphanumeric, '-' and '_' character and
\* replaces every other character by '_'; it has the length of the context
\* name, holds no path separator and no '.', and the cache path lies directly
\* inside the application's config directory.
C28_KeyKeepsAlphanumerics ==
    \A p \in cache_paths :
        /\ KeyIsSafe(p)
        /\ \A i \in DOMAIN p.context :
               p.key[i] = IF p.context[i] \in Alphanumerics \cup {"-", "_"}
                          THEN p.context[i] ELSE "_"

\* C28, amended: the key keeps every ASCII alphanumeric, '-' and '_'
\* character and replaces every other character, the letters and digits
\* outside ASCII included, by '_'; it has as many characters as the context
\* name, holds no path separator and no '.', and the cache path lies directly
\* inside the application's config directory.
C28_KeyKeepsAsciiAlphanumerics ==
    \A p \in cache_paths :
        /\ KeyIsSafe(p)
        /\ \A i \in DOMAIN p.context :
               p.key[i] = IF p.context[i] \in AsciiAlphanumerics \cup {"-", "_"}
                          THEN p.context[i] ELSE "_"

C28_Witness ==
    \E p \in cache_paths :
        /\ p.context = <<"/", ".">>
        /\ p.key = <<"_", "_">>
        /\ p.path = Some(ConfigDir \o << <<"k", "e", "y", "e">>,
                                         <<"_", "_", ".", "j", "s", "o", "n">> >>)

\* C29: two distinct context names never have the same cache key, nor the
\* same cache file.
C29_DistinctContextsDistinctKeys ==
    \A p, q \in cache_paths :
        p.context # q.context =>
            /\ p.key # q.key
            /\ p.path # None => p.path # q.path

\* ------------------------------------------------------------------------
\* C30 : the retry loop is sequential
\* ------------------------------------------------------------------------
\* the invocations of call t that have not returned yet
InFlight(t) == invocations[t] - Len(outcomes[t])

\* C30: retry_with_policy is sequential: at most one invocation of the
\* operation is in flight, and none while the call sleeps; each sleep follows
\* a failed invocation and precedes the next one, none precedes the first
\* invocation and none follows the last, so that a call that has returned
\* slept once less than it invoked the operation.
C30_StrictlySequential ==
    \A t \in DOMAIN pc :
        /\ InFlight(t) = (IF pc[t] = "awaiting" THEN 1 ELSE 0)
        /\ \A k \in DOMAIN slept[t] :
               k \in DOMAIN outcomes[t] /\ outcomes[t][k].tag = "Err"
        /\ invocations[t] = 0 => slept[t] = <<>>
        /\ pc[t] \in {"awaiting", "done"} => Len(slept[t]) = invocations[t] - 1
        /\ pc[t] \in {"sleeping", "loop"} => Len(slept[t]) = invocations[t]
        /\ pc[t] = "sleeping" => outcomes[t][Len(outcomes[t])].tag = "Err"

C30_Witness ==
    /\ pc["t1"] = "done"
    /\ invocations["t1"] = 3
    /\ Len(slept["t1"]) = 2
    /\ result["t1"].tag = "Err"

\* ------------------------------------------------------------------------
\* C31, C33, C34 : discovery and the cache file in resolve_requested_resources
\* ------------------------------------------------------------------------
\* a cache was loaded, it is within the time-to-live, and some target does
\* not resolve against it
FreshCacheFallsShort ==
    /\ stage # "idle"
    /\ loaded_cache # None
    /\ WithinTtl
    /\ ResolvesNotAll(args.targets, loaded_cache[1].resources)

\* C31: when a fresh cache was loaded and some target does not resolve
\* against it, the call does not return from the cache: it goes on to the
\* discovery, and what it returns is what the discovery branch yields, the
\* targets resolved against the discovered list or the discovery error
\* under its context.
C31_FreshCacheMissGoesToDiscovery ==
    FreshCacheFallsShort =>
        /\ Len(io) >= 2
        /\ io[1] = "load"
        /\ io[2] = "discover"
        /\ stage = "done" =>
               /\ discovery = cluster
               /\ discovery.tag = "Ok" =>
                      returned \in match_all_targets(args.targets, discovery.value)
               /\ discovery.tag = "Err" =>
                      returned = Err([kind |-> "FailedToDiscover", source |-> discovery.error])

C31_Witness ==
    /\ FreshCacheFallsShort
    /\ stage = "done"
    /\ args.cache_ttl # None
    /\ discovery.tag = "Ok"
    /\ returned.tag = "Ok"

\* ------------------------------------------------------------------------
\* C32 : termination of the retry loop
\* ------------------------------------------------------------------------
\* C32: under a finite limit n the call returns, after at most n invocations
\* of the operation, whatever the invocations return and whatever the
\* classifier answers, provided every invocation and every sleep completes;
\* under no limit, a call all of whose invocations fail with retryable
\* errors does not return.
C32_TerminatesWithinLimit ==
    /\ [](\A t \in DOMAIN pc :
            policy.max_attempts.tag = "Finite" =>
                /\ invocations[t] <= policy.max_attempts.n
                /\ (invocations[t] = policy.max_attempts.n /\ pc[t] # "awaiting") =>
                       pc[t] = "done")
    /\ policy.max_attempts.tag = "Finite" => <>(\A t \in DOMAIN pc : pc[t] = "done")
    /\ [](\A t \in DOMAIN pc :
            (policy.max_attempts.tag = "Unlimited" /\ AllRetryableFailures(outcomes[t])) =>
                pc[t] # "done")

C32_Witness ==
    /\ policy.max_attempts = Finite(2)
    /\ policy.is_retryable # "default_retryable_error"
    /\ pc["t1"] = "done"
    /\ invocations["t1"] = 2
    /\ Len(slept["t1"]) = 1
    /\ result["t1"].tag = "Err"

\* how many times the call has asked the cluster for its resources
Discoveries == Len(SelectSeq(io, LAMBDA step : step = "discover"))

\* C33: the call writes the cache file only once its discovery has
\* succeeded: a call served from the cache, a call with no targets and a
\* call whose discovery failed, rescued by a stale cache or not, leave the
\* content and the timestamp of the file as they were; and a call asks the
\* cluster at most once.
C33_WritesOnlyAfterDiscovery ==
    /\ [][(file' # file \/ last_saved' # last_saved) =>
              /\ stage = "discovering"
              /\ args.cache_path # None
              /\ discovery'.tag = "Ok"]_vars
    /\ [](Discoveries <= 1)
    /\ []((stage = "done" /\ discovery.tag # "Ok") =>
              \A k \in DOMAIN io : io[k] \in {"load", "discover"})

C33_Witness ==
    /\ stage = "done"
    /\ discovery.tag = "Err"
    /\ loaded_cache # None
    /\ ~WithinTtl
    /\ returned.tag = "Ok"
    /\ io = <<"load", "discover">>
    /\ load_discovery_cache(file) = Ok(loaded_cache[1])

\* the call has returned after a discovery that succeeded, a save of the
\* snapshot that succeeded and a resolution of every target
DiscoveredAndSaved ==
    /\ stage = "done"
    /\ discovery.tag = "Ok"
    /\ io # <<>>
    /\ io[Len(io)] = "save"
    /\ last_saved.tag = "Saved"
    /\ returned.tag = "Ok"

\* C34: after a call that discovered the resources, saved the snapshot and
\* resolved every target, the next call with the same targets and the same
\* cache path, made while the age of the snapshot is within its
\* time-to-live (or with none), returns the same descriptors from the cache
\* and asks the cluster nothing.
C34_SecondCallServedFromCache ==
    [][(/\ DiscoveredAndSaved
        /\ io' # io
        /\ args'.targets = args.targets
        /\ args'.cache_path = args.cache_path
        /\ \/ args'.cache_ttl = None
           \/ now - last_saved.cache_file.updated_at <= args'.cache_ttl[1]) =>
            /\ stage' = "done"
            /\ io' = <<"load">>
            /\ discovery' = NoResult
            /\ returned'.tag = "Ok"
            /\ Len(returned'.value) = Len(returned.value)
            /\ {returned'.value[k] : k \in DOMAIN returned'.value}
                   = {returned.value[k] : k \in DOMAIN returned.value}]_vars

C34_Witness ==
    /\ stage = "done"
    /\ io = <<"load">>
    /\ discovery = NoResult
    /\ last_saved.tag = "Saved"
    /\ loaded_cache = Some(last_saved.cache_file)
    /\ loaded_cache[1].resources = <<Services, Pods>>
    /\ args.targets = <<"svc", "po">>
    /\ args.cache_ttl = Some(DISCOVERY_CACHE_TTL_SECS)
    /\ CacheAge = DISCOVERY_CACHE_TTL_SECS
    /\ returned.tag = "Ok"

====
